---- MODULE Spec2Model ----
(***************************************************************************)
(* DVC Auto-Signer (auto_sign.py): the four annotation heuristics          *)
(* (find_ieq_sections, mark_yes_boxes_red, insert_ieq_notes_na,            *)
(* fill_signature_section_red with find_signature_page) and the            *)
(* "Process PDFs" button handler that composes them over a batch.          *)
(*                                                                         *)
(* A document is a sequence of pages; page index i of the code is element  *)
(* i + 1 of the sequence.  A page carries what PyMuPDF returns for it: the *)
(* word list of get_text("words") and, per literal needle, the rectangle   *)
(* list of search_for.  Coordinates are integers counting 1/40 of a PDF    *)
(* point, so that every constant of the code (1.2, 1.5, 0.25, the half     *)
(* unit of the line key) is exact.  Text is a sequence of one-character    *)
(* strings.  page.draw_line and page.insert_text append to the logs        *)
(* `lines` and `texts`, each entry carrying the index of its page.         *)
(***************************************************************************)
EXTENDS Integers, Sequences, FiniteSets, TLC

VARIABLES
    doc,        \* the loaded document (sequence of pages)
    pc,         \* "start" | "done" for one call; "idle" | "shown" for one click
    lines,      \* draw_line calls so far, in call order
    texts,      \* insert_text calls so far, in call order
    marked,     \* for every X drawn: <<page index, index of the Yes word>>
    sigPage,    \* value returned by find_signature_page (-1 before the call)
    results,    \* st.session_state["results"]
    reports,    \* st.warning / st.error / st.exception / st.caption of the last run
    attempted,  \* names of the uploads read by the last run, in order
    batch       \* the widgets at the last click: uploads, options, name, date

vars == <<doc, pc, lines, texts, marked, sigPage, results, reports, attempted, batch>>

\* the widgets before any upload: the three options default to checked
NoBatch ==
    [uploads |-> <<>>, opt_yes |-> TRUE, opt_sign |-> TRUE, opt_ieq |-> TRUE,
     name |-> <<>>, date_str |-> <<>>]

\* ------------------------------------------------------------------ units

Unit == 4 * 10
Pt(n) == n * Unit

Abs(n) == IF n < 0 THEN -n ELSE n

Red == <<1, 0, 0>>

Rect(a, b, c, d) == [x0 |-> a, y0 |-> b, x1 |-> c, y1 |-> d]
Word(a, b, c, d, t) == [x0 |-> a, y0 |-> b, x1 |-> c, y1 |-> d, txt |-> t]

Yes == <<"Y", "e", "s">>
No == <<"N", "o">>
NA == <<"N", "A">>

\* fitz.Rect.__bool__: a rectangle is falsy only when all coordinates are 0.
RectTruthy(r) == ~(r.x0 = 0 /\ r.y0 = 0 /\ r.x1 = 0 /\ r.y1 = 0)

\* Python round(): nearest integer, halves to the even neighbour; num / den >= 0.
RoundHalfEven(num, den) ==
    LET q == num \div den
        r == num % den
    IN  IF 2 * r < den THEN q
        ELSE IF 2 * r > den THEN q + 1
        ELSE IF q % 2 = 0 THEN q ELSE q + 1

RECURSIVE Flatten(_)
Flatten(ss) == IF ss = <<>> THEN <<>> ELSE Head(ss) \o Flatten(Tail(ss))

Indices(s) == [i \in 1..Len(s) |-> i]

\* ------------------------------------------------------- find_ieq_sections

\* {page_index: rects[0]} for the pages whose search for the heading is non-empty
find_ieq_sections(d) ==
    [i \in {j \in 0..(Len(d) - 1) : d[j + 1].ieq /= <<>>} |-> d[i + 1].ieq[1]]

\* ------------------------------------------------------ mark_yes_boxes_red

\* defaults of lines 39-41 (width 1.2 is 48 / 40) and the literals of lines
\* 91, 101 and 80, in points
x_offset == 9
box == 10
width == 48
MinNoGap == 30
MaxNoGap == 250
LeftReach == 25
IeqMargin == 2

IsDigit(ch) == ch \in {"0", "1", "2", "3", "4", "5", "6", "7", "8", "9"}

\* mutant: "and" for "or"
NumericTokenBoth(t) ==
    (\E i \in 1..Len(t) : IsDigit(t[i])) /\ (\E i \in 1..Len(t) : t[i] = "%" /\ IsDigit(t[i]))

\* any(ch.isdigit() for ch in t) or "%" in t
NumericToken(t) == \E i \in 1..Len(t) : IsDigit(t[i]) \/ t[i] = "%"

\* round(y_mid * 2): the bucket key is this integer divided by 2.0
LineKey(w) == RoundHalfEven(w.y0 + w.y1, Unit)

\* keys of line_buckets in insertion order, after the first n words
RECURSIVE BucketKeys(_, _)
BucketKeys(words, n) ==
    IF n = 0 THEN <<>>
    ELSE LET prev == BucketKeys(words, n - 1)
             k == LineKey(words[n])
         IN  IF \E j \in 1..Len(prev) : prev[j] = k THEN prev ELSE Append(prev, k)

\* line_buckets[key]: indices of the words of that key, in word order
LineBucket(words, key) ==
    SelectSeq(Indices(words), LAMBDA i : LineKey(words[i]) = key)

\* one step of the stable sort by x0: i goes after every element with x0 <= its own
InsertByX0(words, sorted, i) ==
    LET before == SelectSeq(sorted, LAMBDA j : words[j].x0 <= words[i].x0)
        after == SelectSeq(sorted, LAMBDA j : words[j].x0 > words[i].x0)
    IN  before \o <<i>> \o after

\* line_words.sort(key=lambda w: w[0])
RECURSIVE SortByX0(_, _, _)
SortByX0(words, line, n) ==
    IF n = 0 THEN <<>>
    ELSE InsertByX0(words, SortByX0(words, line, n - 1), line[n])

\* mutant: the range test 30 <= dx <= 250 left out
RECURSIVE RightNoAnyGap(_, _, _, _)
RightNoAnyGap(words, line, n, w) ==
    IF n = 0 THEN 0
    ELSE LET best == RightNoAnyGap(words, line, n - 1, w)
             ww == words[line[n]]
             dx == ww.x0 - w.x1
         IN  IF /\ ww.txt = No
                /\ ww.x0 > w.x1
                /\ (best = 0 \/ dx < words[best].x0 - w.x1)
             THEN line[n]
             ELSE best

\* the loop of lines 86-93 over the first n words of the line: the index of
\* right_no (0 for None)
RECURSIVE RightNo(_, _, _, _)
RightNo(words, line, n, w) ==
    IF n = 0 THEN 0
    ELSE LET best == RightNo(words, line, n - 1, w)
             ww == words[line[n]]
             dx == ww.x0 - w.x1
         IN  IF /\ ww.txt = No
                /\ ww.x0 > w.x1
                /\ Pt(MinNoGap) <= dx
                /\ dx <= Pt(MaxNoGap)
                /\ (best = 0 \/ dx < words[best].x0 - w.x1)
             THEN line[n]
             ELSE best

\* the loop of lines 99-103 over the first n words of the line: the index of
\* left_neighbor (0 for None)
RECURSIVE LeftNeighbor(_, _, _, _)
LeftNeighbor(words, line, n, w) ==
    IF n = 0 THEN 0
    ELSE LET best == LeftNeighbor(words, line, n - 1, w)
             ww == words[line[n]]
         IN  IF /\ ww.x1 <= w.x0
                /\ (w.x0 - ww.x1) < Pt(LeftReach)
                /\ (best = 0 \/ ww.x1 > words[best].x1)
             THEN line[n]
             ELSE best

\* mutant: the threshold of any page applied to every page
IeqSkippedAnyPage(skip, idx, y0) ==
    \E q \in DOMAIN skip : RectTruthy(skip[q]) /\ y0 >= skip[q].y0 - Pt(IeqMargin)

\* line 80: the IEQ skip of a word with top edge y0 on page idx
IeqSkipped(skip, idx, y0) ==
    /\ idx \in DOMAIN skip
    /\ RectTruthy(skip[idx])
    /\ y0 >= skip[idx].y0 - Pt(IeqMargin)

\* lines 76-107: does the Yes candidate words[i] of the sorted line reach the drawing code
ReachesDraw(words, line, i, skip, idx) ==
    LET w == words[i]
        has_no == \E k \in 1..Len(line) : words[line[k]].txt = No
        left == LeftNeighbor(words, line, Len(line), w)
    IN  /\ ~IeqSkipped(skip, idx, w.y0)
        /\ has_no
        /\ RightNo(words, line, Len(line), w) /= 0
        /\ ~(left /= 0 /\ NumericToken(words[left].txt))

\* the Yes words of one bucket that get an X, in drawing order
LineTargets(words, key, skip, idx) ==
    LET bucket == LineBucket(words, key)
        line == SortByX0(words, bucket, Len(bucket))
        yes_cands == SelectSeq(line, LAMBDA i : words[i].txt = Yes)
    IN  SelectSeq(yes_cands, LAMBDA i : ReachesDraw(words, line, i, skip, idx))

\* the Yes words of page idx that get an X, in drawing order (lines 55-107)
PageTargets(d, skip, idx) ==
    LET words == d[idx + 1].words
        keys == BucketKeys(words, Len(words))
        perLine == [k \in 1..Len(keys) |-> LineTargets(words, keys[k], skip, idx)]
        flat == Flatten(perLine)
    IN  [k \in 1..Len(flat) |-> <<idx, flat[k]>>]

\* every <<page index, word index>> that gets an X, in drawing order
MarkTargets(d, skip) ==
    Flatten([p \in 1..Len(d) |-> PageTargets(d, skip, p - 1)])

\* random.uniform draws of lines 110-113, per X: the ends of the ranges
\* +-1.5 (dx), +-1.2 (dy), -1.0..1.2 (db), -0.2..0.25 (dw)
Jitter ==
    { [dx |-> a, dy |-> c[1], db |-> c[2], dw |-> c[3]] :
        a \in {-60, 60}, c \in {<<-48, 48, -8>>, <<48, -40, 10>>} }

Max(a, b) == IF a >= b THEN a ELSE b

\* mutant: the second stroke drawn from the word's own left edge
XLinesSkewed(idx, w, j) ==
    LET cx == w.x0 - (Pt(x_offset) + j.dx)
        cy == w.y0 + (w.y1 - w.y0) \div 2 + j.dy
        b == Max(Pt(15) \div 2, Pt(box) + j.db)
        wline == Max(Pt(9) \div 10, width + j.dw)
        h == b \div 2
    IN  << [page |-> idx, from |-> <<cx - h, cy - h>>, to |-> <<cx + h, cy + h>>,
            color |-> Red, width |-> wline],
           [page |-> idx, from |-> <<w.x0 - h, cy + h>>, to |-> <<w.x0 + h, cy - h>>,
            color |-> Red, width |-> wline] >>

\* lines 110-121: the two draw_line calls of one X
XLines(idx, w, j) ==
    LET cx == w.x0 - (Pt(x_offset) + j.dx)
        cy == w.y0 + (w.y1 - w.y0) \div 2 + j.dy
        b == Max(Pt(15) \div 2, Pt(box) + j.db)
        wline == Max(Pt(9) \div 10, width + j.dw)
        h == b \div 2
    IN  << [page |-> idx, from |-> <<cx - h, cy - h>>, to |-> <<cx + h, cy + h>>,
            color |-> Red, width |-> wline],
           [page |-> idx, from |-> <<cx - h, cy + h>>, to |-> <<cx + h, cy - h>>,
            color |-> Red, width |-> wline] >>

\* all draw_line calls of mark_yes_boxes_red(doc, skip_after_y_by_page=skip)
MarkLines(d, targets, jit) ==
    Flatten([k \in 1..Len(targets) |->
                XLines(targets[k][1], d[targets[k][1] + 1].words[targets[k][2]], jit[k])])

\* ---------------------------------------------------------------- pages

EmptyPage ==
    [words |-> <<>>, ieq |-> <<>>, notes |-> <<>>, phrase |-> <<>>,
     sigs |-> <<>>, dates |-> <<>>, names |-> <<>>, pdates |-> <<>>]

\* ------------------------------------------- documents for mark_yes_boxes_red

MaxWords == 3
PageCounts == {1, 2}

LineA(a, c, t) == Word(a, Pt(390), c, Pt(402), t)

MarkPool ==
    << LineA(Pt(100), Pt(130), Yes),                          \* the Yes label
       LineA(Pt(300), Pt(330), Yes),                          \* a second Yes label
       LineA(Pt(180), Pt(210), No),                           \* gap 50
       LineA(Pt(160), Pt(190), No),                           \* gap 30
       LineA(Pt(160) - 2, Pt(190), No),                       \* gap 29.95
       LineA(Pt(380), Pt(410), No),                           \* gap 250
       LineA(Pt(380) + 2, Pt(410), No),                       \* gap 250.05
       LineA(Pt(40), Pt(60), No),                             \* left of the Yes
       LineA(Pt(70), Pt(95), <<"1", "0", "0", "%">>),         \* 5 left of the Yes
       LineA(Pt(96), Pt(99), <<"Q", ":">>),                   \* 1 left of the Yes
       LineA(Pt(65), Pt(75), <<"5">>),                        \* 25 left of the Yes
       Word(Pt(180), Pt(390) + 20, Pt(210), Pt(402), No),     \* 2 * y_mid = 792.5
       Word(Pt(180), Pt(391), Pt(210), Pt(403), No),          \* 2 * y_mid = 794
       Word(Pt(100), Pt(410), Pt(130), Pt(422), Yes),         \* a line 20 lower
       Word(Pt(180), Pt(410), Pt(210), Pt(422), No),
       Word(Pt(100), Pt(200), Pt(130), Pt(212), Yes),         \* a line further up
       Word(Pt(180), Pt(200), Pt(210), Pt(212), No) >>

Heading(y) == Rect(Pt(72), y, Pt(260), y + Pt(14))

IeqHeadings == {Heading(Pt(400)), Heading(Pt(392)), Heading(Pt(392) + 2)}

Increasing(s) == \A i \in 1..(Len(s) - 1) : s[i] < s[i + 1]

\* the words of page p when slot e of 1..(Len(pool) * np) stands for word
\* ((e - 1) % Len(pool)) + 1 of the pool on page (e - 1) \div Len(pool)
PlacedWords(pool, s, p) ==
    LET mine == SelectSeq(s, LAMBDA e : (e - 1) \div Len(pool) = p)
    IN  [k \in 1..Len(mine) |-> pool[((mine[k] - 1) % Len(pool)) + 1]]

\* the slot choices: at most maxw words in all, in pool order within a page
WordSlots(pool, np, maxw) ==
    UNION { {t \in [1..n -> 1..(Len(pool) * np)] : Increasing(t)} : n \in 0..maxw }

\* no heading (page 0 of the choice), or heading h as the only match on page hp
IeqChoices(np) == {<<0, Heading(0)>>} \cup ((1..np) \X IeqHeadings)

\* the document with np pages, the words of slot choice s and heading choice hc
MarkDoc(np, s, hc) ==
    [p \in 1..np |->
        [EmptyPage EXCEPT !.words = PlacedWords(MarkPool, s, p - 1),
                          !.ieq = IF p = hc[1] THEN <<hc[2]>> ELSE <<>>]]

\* ------------------------------------------------------------- specification
\* of one call mark_yes_boxes_red(doc, skip_after_y_by_page=find_ieq_sections(doc))

InitMark ==
    /\ \E np \in PageCounts :
           \E s \in WordSlots(MarkPool, np, MaxWords), hc \in IeqChoices(np) :
               doc = MarkDoc(np, s, hc)
    /\ pc = "start"
    /\ lines = <<>>
    /\ texts = <<>>
    /\ marked = <<>>
    /\ sigPage = -1
    /\ results = <<>>
    /\ reports = <<>>
    /\ attempted = <<>>
    /\ batch = NoBatch

mark_yes_boxes_red ==
    /\ pc = "start"
    /\ LET targets == MarkTargets(doc, find_ieq_sections(doc))
       IN  \E jit \in [1..Len(targets) -> Jitter] :
               /\ lines' = lines \o MarkLines(doc, targets, jit)
               /\ marked' = marked \o targets
    /\ pc' = "done"
    /\ UNCHANGED <<doc, texts, sigPage, results, reports, attempted, batch>>

NextMark == mark_yes_boxes_red

SpecMark == InitMark /\ [][NextMark]_vars

\* ------------------------------------------------- mark_yes_boxes_red: claims

PageIdx == 0..(Len(doc) - 1)
WordsOf(p) == doc[p + 1].words
YesWords(p) == {i \in 1..Len(WordsOf(p)) : WordsOf(p)[i].txt = Yes}

\* an X was drawn for word i of page p
IsMarked(p, i) == \E k \in 1..Len(marked) : marked[k] = <<p, i>>

\* the line bucket of w holds a No strictly right of w with a gap in [30, 250]
PairedNo(words, w) ==
    \E k \in 1..Len(words) :
        /\ words[k].txt = No
        /\ LineKey(words[k]) = LineKey(w)
        /\ words[k].x0 > w.x1
        /\ words[k].x0 - w.x1 >= Pt(30)
        /\ words[k].x0 - w.x1 <= Pt(250)

\* words of w's line ending at or left of w's left edge, less than 25 away
LeftWithin(words, w) ==
    {j \in 1..Len(words) : /\ LineKey(words[j]) = LineKey(w)
                           /\ words[j].x1 <= w.x0
                           /\ w.x0 - words[j].x1 < Pt(25)}

\* the same, 25 away included
LeftUpTo(words, w) ==
    {j \in 1..Len(words) : /\ LineKey(words[j]) = LineKey(w)
                           /\ words[j].x1 <= w.x0
                           /\ w.x0 - words[j].x1 <= Pt(25)}

\* the nearest of the candidates S; of equally near ones the first of the
\* line's left-to-right order (smaller left edge, then earlier word)
Nearest(words, S) ==
    {j \in S : \A k \in S \ {j} :
        \/ words[k].x1 < words[j].x1
        \/ /\ words[k].x1 = words[j].x1
           /\ \/ words[j].x0 < words[k].x0
              \/ (words[j].x0 = words[k].x0 /\ j < k)}

\* the token holds a digit or a "%"
DigitOrPercent(t) ==
    \E i \in 1..Len(t) : t[i] \in {"0", "1", "2", "3", "4", "5", "6", "7", "8", "9", "%"}

NumericBefore(words, S) == \E j \in Nearest(words, S) : DigitOrPercent(words[j].txt)

HasBoundary(p) == doc[p + 1].ieq /= <<>>
AboveBoundary(p, w) == HasBoundary(p) => w.y0 < doc[p + 1].ieq[1].y0 - Pt(2)

\* word i of page p passes the three filters
Qualifies(p, i) ==
    LET w == WordsOf(p)[i]
    IN  /\ w.txt = Yes
        /\ PairedNo(WordsOf(p), w)
        /\ ~NumericBefore(WordsOf(p), LeftWithin(WordsOf(p), w))
        /\ AboveBoundary(p, w)

\* C1: a Yes word is marked only if its line bucket holds a No strictly to its
\* right with a gap in [30, 250]; a Yes word whose same-line No words are all
\* nearer than 30, farther than 250, to its left or in another bucket gets no X.
C1_MarkedOnlyWithPairedNo ==
    pc = "done" =>
        /\ \A k \in 1..Len(marked) : marked[k][2] \in YesWords(marked[k][1])
        /\ \A p \in PageIdx : \A i \in YesWords(p) :
               ~PairedNo(WordsOf(p), WordsOf(p)[i]) => ~IsMarked(p, i)

\* a Yes with a No right of it on its line, none of them in range: unmarked
C1_Witness ==
    /\ pc = "done"
    /\ \E p \in PageIdx : \E i \in YesWords(p) :
           LET w == WordsOf(p)[i]
           IN  /\ \E k \in 1..Len(WordsOf(p)) :
                      /\ WordsOf(p)[k].txt = No
                      /\ LineKey(WordsOf(p)[k]) = LineKey(w)
                      /\ WordsOf(p)[k].x0 > w.x1
               /\ ~PairedNo(WordsOf(p), w)
               /\ ~IsMarked(p, i)

\* C2: on a page with a recorded IEQ boundary a Yes word is marked only if
\* y0 < boundary.y0 - 2; a Yes word passing the other filters is marked when
\* its page has no boundary or it lies above it, whatever other pages record.
C2_IeqSuppression ==
    pc = "done" =>
        \A p \in PageIdx : \A i \in YesWords(p) :
            LET w == WordsOf(p)[i]
                others == /\ PairedNo(WordsOf(p), w)
                          /\ ~NumericBefore(WordsOf(p), LeftWithin(WordsOf(p), w))
            IN  /\ IsMarked(p, i) => AboveBoundary(p, w)
                /\ (others /\ AboveBoundary(p, w)) => IsMarked(p, i)

\* boundary at y = 400, an otherwise qualifying Yes at y0 = 410: not marked
C2_Witness ==
    /\ pc = "done"
    /\ \E p \in PageIdx : \E i \in YesWords(p) :
           LET w == WordsOf(p)[i]
           IN  /\ HasBoundary(p)
               /\ doc[p + 1].ieq[1].y0 = Pt(400)
               /\ w.y0 = Pt(410)
               /\ PairedNo(WordsOf(p), w)
               /\ ~NumericBefore(WordsOf(p), LeftWithin(WordsOf(p), w))
               /\ ~IsMarked(p, i)

\* C3 as stated: a Yes word whose nearest left word within 25 units (25
\* included) holds a digit or "%" gets no X.
C3_Original ==
    pc = "done" =>
        \A p \in PageIdx : \A i \in YesWords(p) :
            NumericBefore(WordsOf(p), LeftUpTo(WordsOf(p), WordsOf(p)[i]))
                => ~IsMarked(p, i)

\* C3 amended: a Yes word whose nearest left word less than 25 units away
\* holds a digit or "%" gets no X, whether or not a qualifying No is on the line.
C3_NumericNeighbourUnmarked ==
    pc = "done" =>
        \A p \in PageIdx : \A i \in YesWords(p) :
            NumericBefore(WordsOf(p), LeftWithin(WordsOf(p), WordsOf(p)[i]))
                => ~IsMarked(p, i)

\* "100% Yes ... No": the No is in range, the Yes is not marked
C3_Witness ==
    /\ pc = "done"
    /\ \E p \in PageIdx : \E i \in YesWords(p) :
           /\ PairedNo(WordsOf(p), WordsOf(p)[i])
           /\ AboveBoundary(p, WordsOf(p)[i])
           /\ NumericBefore(WordsOf(p), LeftWithin(WordsOf(p), WordsOf(p)[i]))
           /\ ~IsMarked(p, i)

LinesOn(p) == {n \in 1..Len(lines) : lines[n].page = p}

\* lines 2k-1 and 2k are the X of word w: two red diagonals crossing at one
\* centre, centre x in [x0 - 10.5, x0 - 7.5], centre y within 1.2 of w's middle
IsXOf(k, p, w) ==
    LET a == lines[2 * k - 1]
        b == lines[2 * k]
        cx2 == a.from[1] + a.to[1]
        cy2 == a.from[2] + a.to[2]
    IN  /\ a.page = p /\ b.page = p
        /\ a.color = Red /\ b.color = Red
        /\ b.from[1] + b.to[1] = cx2
        /\ b.from[2] + b.to[2] = cy2
        /\ a.to[1] - a.from[1] = a.to[2] - a.from[2]
        /\ b.to[1] - b.from[1] = b.from[2] - b.to[2]
        /\ a.to[1] - a.from[1] > 0
        /\ b.to[1] - b.from[1] > 0
        /\ cx2 >= 2 * w.x0 - Pt(21)
        /\ cx2 <= 2 * w.x0 - Pt(15)
        /\ Abs(5 * (cy2 - (w.y0 + w.y1))) <= Pt(12)

\* C4: on every page the number of X marks is the number of Yes words passing
\* all filters; each such word has exactly one X, two red diagonals sharing a
\* centre with x in [x0 - 10.5, x0 - 7.5] and y within 1.2 of the word's middle.
C4_OneXPerQualifyingYes ==
    pc = "done" =>
        /\ Len(lines) = 2 * Len(marked)
        /\ \A p \in PageIdx :
               Cardinality(LinesOn(p)) = 2 * Cardinality({i \in YesWords(p) : Qualifies(p, i)})
        /\ \A k \in 1..Len(marked) :
               /\ Qualifies(marked[k][1], marked[k][2])
               /\ IsXOf(k, marked[k][1], WordsOf(marked[k][1])[marked[k][2]])
               /\ \A m \in 1..Len(marked) : marked[m] = marked[k] => m = k

\* the single page "Yes (100,200)-(130,212)  No (180,200)-(210,212)", no IEQ
\* heading: one X, centred within the jitter of (91, 206)
C4_Witness ==
    /\ pc = "done"
    /\ Len(doc) = 1
    /\ doc[1].ieq = <<>>
    /\ doc[1].words = << Word(Pt(100), Pt(200), Pt(130), Pt(212), Yes),
                         Word(Pt(180), Pt(200), Pt(210), Pt(212), No) >>
    /\ Len(lines) = 2
    /\ Abs(lines[1].from[1] + lines[1].to[1] - 2 * Pt(91)) <= Pt(3)
    /\ Abs(5 * (lines[1].from[2] + lines[1].to[2] - 2 * Pt(206))) <= Pt(12)

\* ------------------------------------------------------ insert_ieq_notes_na

\* one page.insert_text call: the page, the point, the text, and the source
\* line of the call
Insert(p, x, y, t, size, site) ==
    [page |-> p, pos |-> <<x, y>>, text |-> t, fontsize |-> size,
     fontname |-> "helv", fill |-> Red, site |-> site]

\* sorted(ieq_sections.items()): the page indices in ascending order
RECURSIVE SortedKeys(_)
SortedKeys(S) ==
    IF S = {} THEN <<>>
    ELSE LET m == CHOOSE x \in S : \A y \in S : x <= y
         IN  <<m>> \o SortedKeys(S \ {m})

\* the loop of lines 136-141 from page pi on: <<page index, rect>> of the first
\* page with a "Notes:" match, <<>> when there is none
RECURSIVE ForwardNotes(_, _)
ForwardNotes(d, pi) ==
    IF pi >= Len(d) THEN <<>>
    ELSE IF d[pi + 1].notes /= <<>> THEN <<pi, d[pi + 1].notes[1]>>
    ELSE ForwardNotes(d, pi + 1)

\* mutant: the same-page candidates not filtered by the heading's bottom edge
NotesTargetUnfiltered(d, start_page, ieq_rect) ==
    IF d[start_page + 1].notes /= <<>> THEN <<start_page, d[start_page + 1].notes[1]>>
    ELSE ForwardNotes(d, start_page + 1)

\* lines 129-141: <<page index, target>> for one section, <<>> for no target
NotesTarget(d, start_page, ieq_rect) ==
    LET candidates == SelectSeq(d[start_page + 1].notes, LAMBDA r : r.y0 > ieq_rect.y1)
    IN  IF candidates /= <<>> THEN <<start_page, candidates[1]>>
        ELSE ForwardNotes(d, start_page + 1)

\* lines 143-150
NotesInsert(target) ==
    IF target = <<>> THEN <<>>
    ELSE << Insert(target[1], target[2].x1 + Pt(10), target[2].y1 + Pt(8), NA, 11, 144) >>

\* the insert_text calls of insert_ieq_notes_na(doc, ieq_sections), in order
NotesInserts(d, ieq_sections) ==
    LET order == SortedKeys(DOMAIN ieq_sections)
    IN  Flatten([k \in 1..Len(order) |->
                    NotesInsert(NotesTarget(d, order[k], ieq_sections[order[k]]))])

\* ------------------------------------------ documents for insert_ieq_notes_na

MaxNotes == 2
NotePageCounts == {1, 2, 3}

\* "Notes:" labels: above the heading, top edge on the heading's bottom edge,
\* below the heading, further below
NotesPool ==
    { Rect(Pt(72), Pt(100), Pt(110), Pt(112)),
      Rect(Pt(72), Pt(314), Pt(110), Pt(326)),
      Rect(Pt(72), Pt(500), Pt(110), Pt(512)),
      Rect(Pt(300), Pt(315), Pt(338), Pt(327)) }

Injective(s) == \A i, j \in 1..Len(s) : s[i] = s[j] => i = j

\* the search results of one page: up to MaxNotes distinct labels in any order
NotesLists ==
    UNION { {s \in [1..n -> NotesPool] : Injective(s)} : n \in 0..MaxNotes }

NotesHeadings == {<<>>, <<Heading(Pt(300))>>}

InitNotes ==
    /\ \E np \in NotePageCounts :
           \E ns \in [1..np -> NotesLists], hs \in [1..np -> NotesHeadings] :
               doc = [p \in 1..np |-> [EmptyPage EXCEPT !.notes = ns[p], !.ieq = hs[p]]]
    /\ pc = "start"
    /\ lines = <<>>
    /\ texts = <<>>
    /\ marked = <<>>
    /\ sigPage = -1
    /\ results = <<>>
    /\ reports = <<>>
    /\ attempted = <<>>
    /\ batch = NoBatch

insert_ieq_notes_na ==
    /\ pc = "start"
    /\ texts' = texts \o NotesInserts(doc, find_ieq_sections(doc))
    /\ pc' = "done"
    /\ UNCHANGED <<doc, lines, marked, sigPage, results, reports, attempted, batch>>

NextNotes == insert_ieq_notes_na

SpecNotes == InitNotes /\ [][NextNotes]_vars

\* ------------------------------------------------ insert_ieq_notes_na: claims

\* the "Notes:" labels of page p with their top strictly below the heading's bottom
BelowHeading(p) ==
    {k \in 1..Len(doc[p + 1].notes) : doc[p + 1].notes[k].y0 > doc[p + 1].ieq[1].y1}

LaterWithNotes(p) == {q \in PageIdx : q > p /\ doc[q + 1].notes /= <<>>}

Least(S) == CHOOSE x \in S : \A y \in S : x <= y

HasNotesTarget(p) == BelowHeading(p) /= {} \/ LaterWithNotes(p) /= {}

\* the page of the label the boundary of page p targets
TargetPage(p) == IF BelowHeading(p) /= {} THEN p ELSE Least(LaterWithNotes(p))

\* the label the boundary of page p targets
TargetLabel(p) ==
    IF BelowHeading(p) /= {} THEN doc[p + 1].notes[Least(BelowHeading(p))]
    ELSE doc[TargetPage(p) + 1].notes[1]

\* boundaries that have a target
Served == {p \in PageIdx : HasBoundary(p) /\ HasNotesTarget(p)}

\* C7: one "NA" per boundary that has a target, in ascending boundary order,
\* at (target.x1 + 10, target.y1 + 8) on the target's page; the target is the
\* first "Notes:" of the same page with top strictly below the heading's
\* bottom, else the first "Notes:" of the first later page that has any;
\* nothing is inserted for a boundary without a target.
C7_NotesTargets ==
    pc = "done" =>
        /\ Len(texts) = Cardinality(Served)
        /\ \A p \in Served :
               LET t == texts[Cardinality({q \in Served : q < p}) + 1]
               IN  /\ t.page = TargetPage(p)
                   /\ t.pos = <<TargetLabel(p).x1 + Pt(10), TargetLabel(p).y1 + Pt(8)>>
                   /\ t.text = NA
                   /\ t.page >= p
                   /\ t.page = p => TargetLabel(p).y0 > doc[p + 1].ieq[1].y1

\* a heading whose page has "Notes:" only above it, served by a later page,
\* while a later heading has no target at all
C7_Witness ==
    /\ pc = "done"
    /\ \E p \in Served :
           /\ doc[p + 1].notes /= <<>>
           /\ BelowHeading(p) = {}
           /\ TargetPage(p) > p
    /\ \E p \in PageIdx : HasBoundary(p) /\ ~HasNotesTarget(p)
    /\ Len(texts) >= 1

\* ------------------------------------------------------ find_signature_page

BestGapInit == 1000000000
tol == 60

\* twice the gap of lines 163 and 203: |(s.y0+s.y1)/2 - (d.y0+d.y1)/2| * 2
Gap2(sr, dr) == Abs((sr.y0 + sr.y1) - (dr.y0 + dr.y1))

\* gap < best_gap, for a doubled gap g2 and a doubled best_gap best2, where
\* best2 = -1 stands for the initial 1e9
Closer(g2, best2) ==
    IF best2 = -1 THEN g2 \div (2 * Unit) < BestGapInit ELSE g2 < best2

\* the (page, Signature, Date) triples in the order lines 159-162 visit them
PairTriples(d) ==
    Flatten([p \in 1..Len(d) |->
        Flatten([i \in 1..Len(d[p].sigs) |->
            [j \in 1..Len(d[p].dates) |-> <<p - 1, d[p].sigs[i], d[p].dates[j]>>]])])

\* lines 158-165 after the first n triples: <<best, 2 * best_gap>>, best = -1 for None
RECURSIVE BestPage(_, _)
BestPage(tr, n) ==
    IF n = 0 THEN <<-1, -1>>
    ELSE LET prev == BestPage(tr, n - 1)
             g == Gap2(tr[n][2], tr[n][3])
         IN  IF Closer(g, prev[2]) THEN <<tr[n][1], g>> ELSE prev

\* lines 154-156: the first page with the phrase, -1 when no page has it
RECURSIVE PhrasePage(_, _)
PhrasePage(d, i) ==
    IF i >= Len(d) THEN -1
    ELSE IF d[i + 1].phrase /= <<>> THEN i
    ELSE PhrasePage(d, i + 1)

\* mutant: the Signature/Date search tried before the phrase
find_signature_page_pairs_first(d) ==
    LET tr == PairTriples(d)
        best == BestPage(tr, Len(tr))[1]
    IN  IF best /= -1 THEN best
        ELSE IF PhrasePage(d, 0) /= -1 THEN PhrasePage(d, 0)
        ELSE Max(0, Len(d) - 2)

\* mutant: max(0, ...) left out of the last resort
find_signature_page_unclamped(d) ==
    LET tr == PairTriples(d)
        best == BestPage(tr, Len(tr))[1]
    IN  IF PhrasePage(d, 0) /= -1 THEN PhrasePage(d, 0)
        ELSE IF best /= -1 THEN best
        ELSE Len(d) - 2

\* lines 152-166
find_signature_page(d) ==
    LET tr == PairTriples(d)
        best == BestPage(tr, Len(tr))[1]
    IN  IF PhrasePage(d, 0) /= -1 THEN PhrasePage(d, 0)
        ELSE IF best /= -1 THEN best
        ELSE Max(0, Len(d) - 2)

\* ------------------------------------------------ fill_signature_section_red

\* doc[i]: a negative index counts from the end
PageIndex(d, i) == IF i < 0 THEN i + Len(d) ELSE i

\* lines 17-21: glyph = 0 stands for get_text_length raising, otherwise glyph
\* is the mean advance of the font in 1/1000 of the font size
text_width(txt, fontsize, glyph) ==
    IF glyph = 0 THEN (Len(txt) * fontsize * Unit) \div 2
    ELSE (Len(txt) * fontsize * Unit * glyph) \div 1000

\* lines 179-183
NameInsert(p, name_marks, signer_name, glyph) ==
    IF name_marks = <<>> THEN <<>>
    ELSE LET r == name_marks[1]
             w == text_width(signer_name, 11, glyph)
         IN  << Insert(p, r.x0 - Pt(6) - w, r.y1 - Pt(2), signer_name, 11, 182) >>

\* mutant: the 5-unit allowance of line 189 left out
ChosenDateNoAllowance(name_marks, date_marks_para) ==
    LET ok == IF name_marks = <<>> THEN <<>>
              ELSE SelectSeq(date_marks_para, LAMBDA dr : dr.y0 >= name_marks[1].y0)
    IN  IF ok /= <<>> THEN ok[1] ELSE date_marks_para[1]

\* lines 185-192, date_marks_para non-empty
ChosenDate(name_marks, date_marks_para) ==
    LET ok == IF name_marks = <<>> THEN <<>>
              ELSE SelectSeq(date_marks_para, LAMBDA dr : dr.y0 >= name_marks[1].y0 - Pt(5))
    IN  IF ok /= <<>> THEN ok[1] ELSE date_marks_para[1]

\* lines 184-195
ParaDateInsert(p, name_marks, date_marks_para, glyph) ==
    IF date_marks_para = <<>> THEN <<>>
    ELSE LET chosen == ChosenDate(name_marks, date_marks_para)
             w == text_width(NA, 11, glyph)
         IN  << Insert(p, chosen.x0 - Pt(6) - w, chosen.y1 - Pt(2), NA, 11, 194) >>

\* the (Signature, Date) pairs in the order lines 201-202 visit them
LabelPairs(sig_rects, date_rects) ==
    Flatten([i \in 1..Len(sig_rects) |->
        [j \in 1..Len(date_rects) |-> <<sig_rects[i], date_rects[j]>>]])

\* lines 200-205 after the first n pairs: <<best_pair, 2 * best_gap>>, <<>> for None
RECURSIVE BestPair(_, _, _)
BestPair(prs, n, t) ==
    IF n = 0 THEN << <<>>, -1 >>
    ELSE LET prev == BestPair(prs, n - 1, t)
             g == Gap2(prs[n][1], prs[n][2])
         IN  IF g <= 2 * Pt(t) /\ Closer(g, prev[2]) THEN <<prs[n], g>> ELSE prev

\* line 207 over the first n labels: min(sig_rects, key=lambda r: r.y0)
RECURSIVE TopSignature(_, _)
TopSignature(sig_rects, n) ==
    IF n = 1 THEN sig_rects[1]
    ELSE LET prev == TopSignature(sig_rects, n - 1)
         IN  IF sig_rects[n].y0 < prev.y0 THEN sig_rects[n] ELSE prev

\* line 208 over the first n labels: min(date_rects, key=distance to sr)
RECURSIVE NearestDate(_, _, _)
NearestDate(date_rects, n, sr) ==
    IF n = 1 THEN date_rects[1]
    ELSE LET prev == NearestDate(date_rects, n - 1, sr)
         IN  IF Gap2(date_rects[n], sr) < Gap2(prev, sr) THEN date_rects[n] ELSE prev

\* lines 207-209
FallbackPair(sig_rects, date_rects) ==
    LET sr == TopSignature(sig_rects, Len(sig_rects))
    IN  <<sr, NearestDate(date_rects, Len(date_rects), sr)>>

\* mutant: no fallback when no pair is within the tolerance
PairedLabelsNoFallback(sig_rects, date_rects, t) ==
    LET prs == LabelPairs(sig_rects, date_rects)
    IN  BestPair(prs, Len(prs), t)[1]

\* lines 198-209: best_pair, <<>> for None
PairedLabels(sig_rects, date_rects, t) ==
    LET prs == LabelPairs(sig_rects, date_rects)
        best_pair == BestPair(prs, Len(prs), t)[1]
    IN  IF best_pair = <<>> /\ sig_rects /= <<>> /\ date_rects /= <<>>
        THEN FallbackPair(sig_rects, date_rects)
        ELSE best_pair

\* lines 211-216
LabelInserts(p, best_pair, signer_name, bottom_date) ==
    IF best_pair = <<>> THEN <<>>
    ELSE << Insert(p, best_pair[1].x1 + Pt(12), best_pair[1].y1 - Pt(2), signer_name, 16, 213),
            Insert(p, best_pair[2].x1 + Pt(12), best_pair[2].y1 - Pt(2), bottom_date, 12, 215) >>

\* the insert_text calls of fill_signature_section_red, in order, on page doc[target]
SignatureInserts(d, target, signer_name, bottom_date, glyph) ==
    LET p == PageIndex(d, target)
        page == d[p + 1]
    IN  NameInsert(p, page.names, signer_name, glyph)
        \o ParaDateInsert(p, page.names, page.pdates, glyph)
        \o LabelInserts(p, PairedLabels(page.sigs, page.dates, tol), signer_name, bottom_date)

\* -------------------------------------- documents for the signature section

MaxRects == 4
SigPageCounts == {1, 2, 3}

\* search results a page may hold, in the order search_for returns them:
\* the phrase; "Signature" labels with centres 606 and 306; "Date" labels with
\* centres 686, 666 and 610; a "(Name)" token with top 300; "(Date)" tokens
\* with tops 290, 297 and 320
SigPool ==
    << <<"phrase", Rect(Pt(72), Pt(500), Pt(400), Pt(512))>>,
       <<"sig", Rect(Pt(72), Pt(600), Pt(130), Pt(612))>>,
       <<"sig", Rect(Pt(72), Pt(300), Pt(130), Pt(312))>>,
       <<"date", Rect(Pt(300), Pt(680), Pt(330), Pt(692))>>,
       <<"date", Rect(Pt(300), Pt(660), Pt(330), Pt(672))>>,
       <<"date", Rect(Pt(300), Pt(604), Pt(330), Pt(616))>>,
       <<"name", Rect(Pt(200), Pt(300), Pt(240), Pt(312))>>,
       <<"pdate", Rect(Pt(400), Pt(290), Pt(440), Pt(302))>>,
       <<"pdate", Rect(Pt(400), Pt(297), Pt(440), Pt(309))>>,
       <<"pdate", Rect(Pt(400), Pt(320), Pt(440), Pt(332))>> >>

\* the rectangles of one kind among the placed items of a page
OfKind(items, kind) ==
    LET mine == SelectSeq(items, LAMBDA it : it[1] = kind)
    IN  [k \in 1..Len(mine) |-> mine[k][2]]

SigDoc(np, s) ==
    [p \in 1..np |->
        LET items == PlacedWords(SigPool, s, p - 1)
        IN  [EmptyPage EXCEPT !.phrase = OfKind(items, "phrase"),
                              !.sigs = OfKind(items, "sig"),
                              !.dates = OfKind(items, "date"),
                              !.names = OfKind(items, "name"),
                              !.pdates = OfKind(items, "pdate")]]

SignerNames == { <<"M", "o">> }
BottomDates == { <<"2", "0", "2", "6", "-", "1", "1", "-", "0", "4">> }
Glyphs == {0, 556}

InitSig ==
    /\ \E np \in SigPageCounts :
           \E s \in WordSlots(SigPool, np, MaxRects) : doc = SigDoc(np, s)
    /\ pc = "start"
    /\ lines = <<>>
    /\ texts = <<>>
    /\ marked = <<>>
    /\ sigPage = -1
    /\ results = <<>>
    /\ reports = <<>>
    /\ attempted = <<>>
    /\ batch = NoBatch

\* fill_signature_section_red(doc, signer_name, bottom_date), line 174 included
fill_signature_section_red ==
    /\ pc = "start"
    /\ \E signer_name \in SignerNames, bottom_date \in BottomDates, glyph \in Glyphs :
           LET target == find_signature_page(doc)
           IN  /\ sigPage' = target
               /\ texts' = texts \o SignatureInserts(doc, target, signer_name, bottom_date, glyph)
    /\ pc' = "done"
    /\ UNCHANGED <<doc, lines, marked, results, reports, attempted, batch>>

NextSig == fill_signature_section_red

SpecSig == InitSig /\ [][NextSig]_vars

\* ----------------------------------------------- signature section: claims

PhrasePages == {p \in PageIdx : doc[p + 1].phrase /= <<>>}

\* twice the vertical-centre distances of the Signature/Date pairs of page p
PairGaps(p) ==
    { Gap2(doc[p + 1].sigs[i], doc[p + 1].dates[j]) :
        i \in 1..Len(doc[p + 1].sigs), j \in 1..Len(doc[p + 1].dates) }

AllPairGaps == UNION { PairGaps(p) : p \in PageIdx }

\* C5: the page with the phrase wins over every Signature/Date pair; without
\* the phrase the page holding a pair of minimal vertical-centre distance;
\* without any pair the second-to-last page, page 0 for fewer than two pages.
C5_PagePriority ==
    pc = "done" =>
        IF PhrasePages /= {} THEN sigPage \in PhrasePages
        ELSE IF AllPairGaps /= {}
            THEN /\ sigPage \in PageIdx
                 /\ \E g \in PairGaps(sigPage) : \A h \in AllPairGaps : g <= h
        ELSE sigPage = (IF Len(doc) < 2 THEN 0 ELSE Len(doc) - 2)

\* three pages, the phrase only on page 2, Signature and Date on pages 0-1
C5_Witness ==
    /\ pc = "done"
    /\ Len(doc) = 3
    /\ PhrasePages = {2}
    /\ \E p \in {0, 1} : doc[p + 1].sigs /= <<>>
    /\ \E p \in {0, 1} : doc[p + 1].dates /= <<>>
    /\ sigPage = 2

TextsAt(site) == SelectSeq(texts, LAMBDA t : t.site = site)

\* the insertions of lines 213 and 215 sit next to labels sr and dr
PlacedAt(sr, dr) ==
    /\ TextsAt(213)[1].pos = <<sr.x1 + Pt(12), sr.y1 - Pt(2)>>
    /\ TextsAt(215)[1].pos = <<dr.x1 + Pt(12), dr.y1 - Pt(2)>>
    /\ TextsAt(213)[1].text \in SignerNames
    /\ TextsAt(215)[1].text \in BottomDates

\* C6: with a Signature and a Date label on the target page exactly one pair
\* gets the name and the bottom date: a pair of minimal vertical-centre
\* distance if some pair is within 60, otherwise the topmost Signature with
\* the Date nearest to it; with a label type absent neither is inserted.
C6_LabelPairing ==
    pc = "done" =>
        LET S == doc[sigPage + 1].sigs
            D == doc[sigPage + 1].dates
        IN  IF S /= <<>> /\ D /= <<>>
            THEN /\ Len(TextsAt(213)) = 1
                 /\ Len(TextsAt(215)) = 1
                 /\ \E i \in 1..Len(S) : \E j \in 1..Len(D) :
                        /\ PlacedAt(S[i], D[j])
                        /\ IF \E g \in PairGaps(sigPage) : g <= 2 * Pt(60)
                           THEN \A g \in PairGaps(sigPage) : Gap2(S[i], D[j]) <= g
                           ELSE /\ \A k \in 1..Len(S) : S[i].y0 <= S[k].y0
                                /\ \A k \in 1..Len(D) : Gap2(D[j], S[i]) <= Gap2(D[k], S[i])
            ELSE TextsAt(213) = <<>> /\ TextsAt(215) = <<>>

\* one Signature and one Date 80 apart: still paired
C6_Witness ==
    /\ pc = "done"
    /\ Len(doc[sigPage + 1].sigs) = 1
    /\ Len(doc[sigPage + 1].dates) = 1
    /\ PairGaps(sigPage) = {2 * Pt(80)}
    /\ Len(TextsAt(213)) = 1
    /\ Len(TextsAt(215)) = 1

\* the paragraph "NA" sits left of (Date) token dr, on its bottom line
NaNextTo(dr) ==
    /\ TextsAt(194)[1].text = NA
    /\ TextsAt(194)[1].pos[2] = dr.y1 - Pt(2)
    /\ TextsAt(194)[1].pos[1] < dr.x0 - Pt(6)

\* the first (Date) token whose top is at least `least`
FirstFrom(P, least) ==
    P[Least({k \in 1..Len(P) : P[k].y0 >= least})]

\* C9 as stated: with a (Name) token the "NA" goes to the first (Date) token
\* whose top is at or below the (Name) token's top, if there is one.
C9_Original ==
    pc = "done" =>
        LET N == doc[sigPage + 1].names
            P == doc[sigPage + 1].pdates
        IN  IF P = <<>> THEN TextsAt(194) = <<>>
            ELSE /\ Len(TextsAt(194)) = 1
                 /\ N = <<>> => NaNextTo(P[1])
                 /\ (N /= <<>> /\ \E k \in 1..Len(P) : P[k].y0 >= N[1].y0)
                        => NaNextTo(FirstFrom(P, N[1].y0))

\* C9 amended: with a (Name) token the "NA" goes to the first (Date) token
\* whose top is no more than 5 above the (Name) token's top, and to the first
\* (Date) token if there is none; without a (Name) token to the first (Date)
\* token; without a (Date) token no paragraph "NA" is inserted.
C9_ParagraphDate ==
    pc = "done" =>
        LET N == doc[sigPage + 1].names
            P == doc[sigPage + 1].pdates
        IN  IF P = <<>> THEN TextsAt(194) = <<>>
            ELSE /\ Len(TextsAt(194)) = 1
                 /\ IF N /= <<>> /\ \E k \in 1..Len(P) : P[k].y0 >= N[1].y0 - Pt(5)
                    THEN NaNextTo(FirstFrom(P, N[1].y0 - Pt(5)))
                    ELSE NaNextTo(P[1])

\* a (Name) token, a first (Date) token more than 5 above it, and a later one
\* below it that gets the "NA"
C9_Witness ==
    /\ pc = "done"
    /\ doc[sigPage + 1].names /= <<>>
    /\ Len(doc[sigPage + 1].pdates) >= 2
    /\ doc[sigPage + 1].pdates[1].y0 < doc[sigPage + 1].names[1].y0 - Pt(5)
    /\ Len(TextsAt(194)) = 1
    /\ ~NaNextTo(doc[sigPage + 1].pdates[1])

\* C10: the page index returned is one of the document's pages, every
\* insertion is on that page, there are at most four, and nothing is drawn.
C10_OnePageOnly ==
    pc = "done" =>
        /\ sigPage \in PageIdx
        /\ \A k \in 1..Len(texts) : texts[k].page = sigPage
        /\ Len(texts) <= 4
        /\ lines = <<>>

\* all four insertions, on the target page of a document with other pages
C10_Witness ==
    /\ pc = "done"
    /\ Len(doc) >= 2
    /\ Len(texts) = 4
    /\ \A k \in 1..4 : texts[k].page = sigPage

\* ------------------------------------------------------ "Process PDFs" handler

IsSpace(ch) == ch \in {" ", "\t", "\n"}

\* str.strip(): leading and trailing whitespace removed
RECURSIVE strip(_)
strip(t) ==
    IF t = <<>> THEN t
    ELSE IF IsSpace(Head(t)) THEN strip(Tail(t))
    ELSE IF IsSpace(t[Len(t)]) THEN strip(SubSeq(t, 1, Len(t) - 1))
    ELSE t

\* position of the last "." among the first n characters, 0 when there is none
RECURSIVE LastDot(_, _)
LastDot(t, n) ==
    IF n = 0 THEN 0
    ELSE IF t[n] = "." THEN n
    ELSE LastDot(t, n - 1)

\* line 286: uploaded.name.rsplit(".", 1)[0]
Stem(t) ==
    IF LastDot(t, Len(t)) = 0 THEN t ELSE SubSeq(t, 1, LastDot(t, Len(t)) - 1)

\* line 287
OutName(t) == Stem(t) \o <<"_", "s", "i", "g", "n", "e", "d", ".", "p", "d", "f">>

Report(level, u) == [level |-> level, name |-> u.name]

\* lines 264-279 on an opened document: the saved content
Annotated(d, b, j, glyph) ==
    LET ieq_sections == IF b.opt_ieq \/ b.opt_yes THEN find_ieq_sections(d) ELSE <<>>
        targets == IF b.opt_yes THEN MarkTargets(d, ieq_sections) ELSE <<>>
        notes == IF b.opt_ieq /\ DOMAIN ieq_sections /= {}
                 THEN NotesInserts(d, ieq_sections) ELSE <<>>
        sign == IF b.opt_sign
                THEN SignatureInserts(d, find_signature_page(d), strip(b.name),
                                      strip(b.date_str), glyph)
                ELSE <<>>
    IN  [doc |-> d,
         lines |-> MarkLines(d, targets, [k \in 1..Len(targets) |-> j]),
         texts |-> notes \o sign]

\* lines 249-293 for one upload: what is reported and what is appended.
\* kind "empty": read() returns no bytes; "corrupt": fitz.open raises;
\* "locked": needs_pass; "unsavable": doc.save raises; "pdf": no error
ProcessOne(u, b, j, glyph) ==
    IF u.kind = "empty" THEN [reports |-> <<Report("error_empty", u)>>, entries |-> <<>>]
    ELSE IF u.kind = "corrupt" THEN [reports |-> <<Report("exception", u)>>, entries |-> <<>>]
    ELSE IF u.kind = "locked" THEN [reports |-> <<Report("error_locked", u)>>, entries |-> <<>>]
    ELSE IF u.kind = "unsavable"
        THEN [reports |-> <<Report("caption", u), Report("exception", u)>>, entries |-> <<>>]
    ELSE [reports |-> <<Report("caption", u)>>,
          entries |-> << [filename |-> OutName(u.name),
                          bytes |-> Annotated(u.doc, b, j, glyph)] >>]

\* mutant: no try/except around one upload, the first exception ends the loop
RECURSIVE RunBatchAborting(_, _, _, _)
RunBatchAborting(b, n, jit, glyph) ==
    IF n = 0 THEN [results |-> <<>>, reports |-> <<>>, attempted |-> <<>>, live |-> TRUE]
    ELSE LET prev == RunBatchAborting(b, n - 1, jit, glyph)
             one == ProcessOne(b.uploads[n], b, jit[n], glyph)
         IN  IF ~prev.live THEN prev
             ELSE [results |-> prev.results \o one.entries,
                   reports |-> prev.reports \o one.reports,
                   attempted |-> Append(prev.attempted, b.uploads[n].name),
                   live |-> b.uploads[n].kind \notin {"corrupt", "unsavable"}]

\* the loop of line 248 over the first n uploads
RECURSIVE RunBatch(_, _, _, _)
RunBatch(b, n, jit, glyph) ==
    IF n = 0 THEN [results |-> <<>>, reports |-> <<>>, attempted |-> <<>>, live |-> TRUE]
    ELSE LET prev == RunBatch(b, n - 1, jit, glyph)
             one == ProcessOne(b.uploads[n], b, jit[n], glyph)
         IN  [results |-> prev.results \o one.entries,
              reports |-> prev.reports \o one.reports,
              attempted |-> Append(prev.attempted, b.uploads[n].name),
              live |-> TRUE]

\* ------------------------------------------------------ uploads of the batch

MaxUploads == 3

DottedName(a, b) == <<a, ".", b, ".", "p", "d", "f">>

\* the end-to-end page: Yes (100,200)-(130,212), No (180,200)-(210,212)
YesNoDoc ==
    << [EmptyPage EXCEPT !.words = << Word(Pt(100), Pt(200), Pt(130), Pt(212), Yes),
                                      Word(Pt(180), Pt(200), Pt(210), Pt(212), No) >>] >>

\* an IEQ heading with a "Notes:" label under it, then a signature page
FormDoc ==
    << [EmptyPage EXCEPT !.ieq = <<Heading(Pt(300))>>,
                         !.notes = <<Rect(Pt(72), Pt(500), Pt(110), Pt(512))>>],
       [EmptyPage EXCEPT !.sigs = <<Rect(Pt(72), Pt(600), Pt(130), Pt(612))>>,
                         !.dates = <<Rect(Pt(300), Pt(604), Pt(330), Pt(616))>>],
       EmptyPage >>

UploadPool ==
    { [name |-> DottedName("a", "v"), kind |-> "pdf", doc |-> YesNoDoc],
      [name |-> <<"b", ".", "p", "d", "f">>, kind |-> "pdf", doc |-> FormDoc],
      [name |-> <<"e", ".", "p", "d", "f">>, kind |-> "empty", doc |-> <<>>],
      [name |-> <<"l", ".", "p", "d", "f">>, kind |-> "locked", doc |-> FormDoc],
      [name |-> <<"x", ".", "p", "d", "f">>, kind |-> "corrupt", doc |-> <<>>],
      [name |-> <<"s", ".", "p", "d", "f">>, kind |-> "unsavable", doc |-> YesNoDoc] }

UploadLists == UNION { [1..n -> UploadPool] : n \in 0..MaxUploads }

TypedNames == { <<" ", "M", "o", " ">> }
TypedDates == { <<"2", "0", "2", "6", "-", "1", "1", "-", "0", "4", " ">> }
BatchJitter == { j \in Jitter : j.dx = 60 }
BatchGlyphs == { g \in Glyphs : g /= 0 }

\* what an earlier click may have left in the session: nothing, or one entry
EarlierBatch ==
    [NoBatch EXCEPT !.uploads = << [name |-> <<"o", ".", "p", "d", "f">>,
                                    kind |-> "pdf", doc |-> FormDoc] >>]

EarlierResults ==
    { <<>>, RunBatch(EarlierBatch, 1, [k \in {1} |-> CHOOSE j \in BatchJitter : TRUE], 0).results }

\* a session before a click, fresh (line 238) or after an earlier run
InitBatch ==
    /\ doc = <<>>
    /\ pc = "idle"
    /\ lines = <<>>
    /\ texts = <<>>
    /\ marked = <<>>
    /\ sigPage = -1
    /\ results \in EarlierResults
    /\ reports = <<>>
    /\ attempted = <<>>
    /\ batch = NoBatch

\* lines 240-293: one click on "Process PDFs" with the widgets as b
ProcessPDFs ==
    /\ pc = "idle"
    /\ \E ups \in UploadLists, oy \in BOOLEAN, os \in BOOLEAN, oi \in BOOLEAN,
          nm \in TypedNames, dt \in TypedDates :
           LET b == [uploads |-> ups, opt_yes |-> oy, opt_sign |-> os, opt_ieq |-> oi,
                     name |-> nm, date_str |-> dt]
           IN  /\ batch' = b
               /\ IF ups = <<>>
                  THEN /\ results' = <<>>
                       /\ reports' = <<[level |-> "warning_no_upload", name |-> <<>>]>>
                       /\ attempted' = <<>>
                  ELSE IF ~oy /\ ~os /\ ~oi
                  THEN /\ results' = <<>>
                       /\ reports' = <<[level |-> "warning_no_action", name |-> <<>>]>>
                       /\ attempted' = <<>>
                  ELSE \E jit \in [1..Len(ups) -> BatchJitter], glyph \in BatchGlyphs :
                           LET run == RunBatch(b, Len(ups), jit, glyph)
                           IN  /\ results' = run.results
                               /\ reports' = run.reports
                               /\ attempted' = run.attempted
    /\ pc' = "shown"
    /\ UNCHANGED <<doc, lines, texts, marked, sigPage>>

NextBatch == ProcessPDFs

SpecBatch == InitBatch /\ [][NextBatch]_vars

\* ---------------------------------------------------------- handler: claims

UploadIdx == 1..Len(batch.uploads)

\* the uploads that complete without error, in upload order
Completed == SelectSeq(batch.uploads, LAMBDA u : u.kind = "pdf")

\* name ends in "_signed.pdf" after the upload's name cut at its last "."
SignedNameOf(fname, uname) ==
    \E cut \in 0..Len(uname) :
        /\ cut = 0 => \A i \in 1..Len(uname) : uname[i] /= "."
        /\ cut > 0 => uname[cut] = "." /\ \A i \in (cut + 1)..Len(uname) : uname[i] /= "."
        /\ fname = (IF cut = 0 THEN uname ELSE SubSeq(uname, 1, cut - 1))
                   \o <<"_", "s", "i", "g", "n", "e", "d", ".", "p", "d", "f">>

ErrorLevels == {"error_empty", "error_locked", "exception"}

\* every upload read in order; one entry per completed upload, in order, named
\* <stem>_signed.pdf; an error report for every upload that fails
BatchOutcome ==
    /\ attempted = [i \in UploadIdx |-> batch.uploads[i].name]
    /\ Len(results) = Len(Completed)
    /\ \A k \in 1..Len(results) : SignedNameOf(results[k].filename, Completed[k].name)
    /\ \A i \in UploadIdx :
           batch.uploads[i].kind /= "pdf" =>
               /\ \E r \in 1..Len(reports) :
                      reports[r].level \in ErrorLevels /\ reports[r].name = batch.uploads[i].name
               /\ \A k \in 1..Len(results) :
                      ~SignedNameOf(results[k].filename, batch.uploads[i].name)

\* C8 as stated: after any run every upload was attempted and the results hold
\* exactly the completed uploads.
C8_Original == pc = "shown" => BatchOutcome

AnyAction == batch.opt_yes \/ batch.opt_sign \/ batch.opt_ieq

\* C8 amended: after a run with at least one action selected every upload was
\* attempted in order, each failing upload has an error report and no entry,
\* and the results hold exactly the completed uploads of this run; after a
\* run with no action selected no upload is read and the results are empty.
C8_BatchIsolation ==
    pc = "shown" =>
        IF AnyAction THEN BatchOutcome
        ELSE attempted = <<>> /\ results = <<>>

\* a failing upload between two good ones, after which both good ones are in
\* the results
C8_Witness ==
    /\ pc = "shown"
    /\ Len(batch.uploads) = 3
    /\ AnyAction
    /\ batch.uploads[1].kind = "pdf"
    /\ batch.uploads[2].kind \in {"corrupt", "unsavable"}
    /\ batch.uploads[3].kind = "pdf"
    /\ Len(results) = 2
    /\ Len(attempted) = 3

====
